---- MODULE Spec2Model ----
(***************************************************************************)
(* Ransomware-detection service: the rule-based behavioural scorer         *)
(* (src/src/behav_model.py), the static scorer's wrapper                   *)
(* (src/src/static_model.py, src/src/explain_utils.py) and the fusion      *)
(* engine combine_model_outputs (src/src/app.py).                          *)
(*                                                                         *)
(* Numbers.  A probability is an integer number of units, Scale units      *)
(* being 1.0; Pct(n) is n/100.  Scale is a multiple of 100 and of every    *)
(* row count the model uses, so every mean and every weighted sum the      *)
(* model computes is exact.  The float NaN (the mean of an empty array)    *)
(* is the value NaN, for which every comparison is false, as in IEEE 754.  *)
(* Python's None is the value None.  A supplied ratio is a number of       *)
(* thousandths; a ratio the scorer computes is a pair <<num, den>>.        *)
(***************************************************************************)
EXTENDS Integers, Sequences, FiniteSets, TLC

\* ------------------------------------------------------------------ bounds

\* The largest number of rows of an uploaded table.
MaxRows == 2

\* The largest number of reasons a stubbed scorer returns (SpecFuse).
MaxStubReasons == 3

\* ----------------------------------------------------------------- numbers

Scale == 100 * 60

Pct(n) == (n * Scale) \div 100

NaN == -1

None == -2

IsNum(x) == x >= 0

\* Python's float comparisons: false as soon as one side is NaN.
FGe(x, y) == IsNum(x) /\ IsNum(y) /\ x >= y

FLt(x, y) == IsNum(x) /\ IsNum(y) /\ x < y

FLe(x, y) == IsNum(x) /\ IsNum(y) /\ x <= y

RECURSIVE SeqSum(_)
SeqSum(s) == IF s = <<>> THEN 0 ELSE Head(s) + SeqSum(Tail(s))

\* numpy's ndarray.mean(): NaN for an empty array.
Mean(probs) == IF Len(probs) = 0 THEN NaN ELSE SeqSum(probs) \div Len(probs)

\* ------------------------------------------------- behavioural scorer

BEHAV_THRESHOLD == Pct(60)

FILE_WEIGHT == Pct(60)

NET_WEIGHT == Pct(20)

PROC_WEIGHT == Pct(20)

N_FILE_LIMIT == 1000

RATIO_FILE_LIMIT == 500

N_NET_LIMIT == 5

RATIO_NET_LIMIT == 20

N_PROC_LIMIT == 10

RATIO_PROC_LIMIT == 20

R_FILE == "Unusually high proportion of file-creation events, consistent with mass file modification or encryption behaviour."

R_NET == "Network connection events detected, suggesting potential propagation or command-and-control communication."

R_PROC == "Multiple process creation events observed, which may indicate process spawning or code injection behaviour."

R_NORMAL == "Behavioural activity appears within normal ranges typically observed in benign software."

R_NOEVENTS == "No behavioural events available for analysis."

\* A cell of a table row, as row.get(column, 0) sees it: the column is absent
\* (Missing), the cell is empty (pandas reads it as NaN), the cell holds text
\* that is no number (Bad), or it holds a number.
Missing == [kind |-> "missing", v |-> 0]

NaNCell == [kind |-> "nan", v |-> 0]

Bad == [kind |-> "bad", v |-> 0]

Num(n) == [kind |-> "num", v |-> n]

\* Faulty variant of RowGet: row[column], which fails on an absent column.
RowGetStrict(row, col) == IF row[col].kind = "missing" THEN Bad ELSE row[col]

\* row.get(column, 0): the default 0 for an absent column.
RowGet(row, col) == IF row[col].kind = "missing" THEN Num(0) ELSE row[col]

\* Python truthiness of a cell: 0 is falsy; NaN and a non-empty string are truthy.
Truthy(c) == ~(c.kind = "num" /\ c.v = 0)

\* float(row.get(column, 0) or 0): a float, NaN, or ValueError for text.
GetFloat(row, col) ==
    LET c == RowGet(row, col)
    IN  IF Truthy(c)
        THEN (IF c.kind = "bad" THEN [kind |-> "err", v |-> 0] ELSE c)
        ELSE Num(0)

\* Faulty variant of GetRatio: the count-derived ratio preferred to a supplied
\* one whenever total_events > 0.
GetRatioDerivedFirst(row, col, n, total) ==
    LET c == RowGet(row, col)
    IN  IF total.kind = "num" /\ total.v > 0 /\ n.kind = "num"
        THEN [kind |-> "num", num |-> n.v, den |-> total.v]
        ELSE IF Truthy(c)
             THEN (CASE c.kind = "bad" -> [kind |-> "err", num |-> 0, den |-> 1]
                     [] c.kind = "nan" -> [kind |-> "nan", num |-> 0, den |-> 1]
                     [] OTHER -> [kind |-> "num", num |-> c.v, den |-> 1000])
             ELSE [kind |-> "num", num |-> 0, den |-> 1]

\* Faulty variant of GetRatio: the count divided by total_events without the
\* total > 0 guard.
GetRatioUnguarded(row, col, n, total) ==
    LET c == RowGet(row, col)
    IN  IF Truthy(c)
        THEN (CASE c.kind = "bad" -> [kind |-> "err", num |-> 0, den |-> 1]
                [] c.kind = "nan" -> [kind |-> "nan", num |-> 0, den |-> 1]
                [] OTHER -> [kind |-> "num", num |-> c.v, den |-> 1000])
        ELSE IF total.kind = "num"
             THEN (IF n.kind = "nan"
                   THEN [kind |-> "nan", num |-> 0, den |-> 1]
                   ELSE [kind |-> "num", num |-> n.v, den |-> total.v])
             ELSE [kind |-> "num", num |-> 0, den |-> 1]

\* float(row.get(ratio, 0) or (n / total if total > 0 else 0)): a ratio
\* <<num, den>>, NaN, or ValueError.  A supplied ratio r is r / 1000.
GetRatio(row, col, n, total) ==
    LET c == RowGet(row, col)
    IN  IF Truthy(c)
        THEN (CASE c.kind = "bad" -> [kind |-> "err", num |-> 0, den |-> 1]
                [] c.kind = "nan" -> [kind |-> "nan", num |-> 0, den |-> 1]
                [] OTHER -> [kind |-> "num", num |-> c.v, den |-> 1000])
        ELSE IF total.kind = "num" /\ total.v > 0
             THEN (IF n.kind = "nan"
                   THEN [kind |-> "nan", num |-> 0, den |-> 1]
                   ELSE [kind |-> "num", num |-> n.v, den |-> total.v])
             ELSE [kind |-> "num", num |-> 0, den |-> 1]

\* n > limit on floats (false for NaN).
CountOver(n, limit) == n.kind = "num" /\ n.v > limit

\* ratio > limit / 1000 on floats (false for NaN).
RatioOver(r, limit) == r.kind = "num" /\ r.num * 1000 > limit * r.den

Min2(a, b) == IF a < b THEN a ELSE b

Max2(a, b) == IF a > b THEN a ELSE b

\* Faulty variant of FileRule: the count limit taken as inclusive.
FileRuleInclusive(n_file, ratio_file) ==
    (n_file.kind = "num" /\ n_file.v >= N_FILE_LIMIT)
    \/ RatioOver(ratio_file, RATIO_FILE_LIMIT)

FileRule(n_file, ratio_file) ==
    CountOver(n_file, N_FILE_LIMIT) \/ RatioOver(ratio_file, RATIO_FILE_LIMIT)

NetRule(n_net, ratio_net) ==
    CountOver(n_net, N_NET_LIMIT) \/ RatioOver(ratio_net, RATIO_NET_LIMIT)

ProcRule(n_proc, ratio_proc) ==
    CountOver(n_proc, N_PROC_LIMIT) \/ RatioOver(ratio_proc, RATIO_PROC_LIMIT)

\* score = max(0.0, min(score, 1.0))
Clamp(score) == Max2(0, Min2(score, Scale))

\* Lines 31-66 of _compute_behav_score, on the seven floats of lines 22-29.
RuleScore(n_proc, n_file, n_net, ratio_proc, ratio_file, ratio_net) ==
    LET f == FileRule(n_file, ratio_file)
        n == NetRule(n_net, ratio_net)
        p == ProcRule(n_proc, ratio_proc)
        score == (IF f THEN FILE_WEIGHT ELSE 0) + (IF n THEN NET_WEIGHT ELSE 0)
                 + (IF p THEN PROC_WEIGHT ELSE 0)
        reasons == (IF f THEN <<R_FILE>> ELSE <<>>) \o (IF n THEN <<R_NET>> ELSE <<>>)
                   \o (IF p THEN <<R_PROC>> ELSE <<>>)
    IN  [ok |-> TRUE, score |-> Clamp(score),
         reasons |-> IF reasons = <<>> THEN <<R_NORMAL>> ELSE reasons]

ValueError == [ok |-> FALSE, score |-> 0, reasons |-> <<>>]

\* _compute_behav_score(row): [ok, score, reasons]; ok is FALSE when a float()
\* conversion of lines 22-29 raises ValueError.
ComputeBehavScore(row) ==
    LET total == GetFloat(row, "total_events")
        n_proc == GetFloat(row, "n_proc_create")
        n_file == GetFloat(row, "n_file_create")
        n_net == GetFloat(row, "n_net_conn")
    IN  IF "err" \in {total.kind, n_proc.kind, n_file.kind, n_net.kind}
        THEN ValueError
        ELSE LET ratio_proc == GetRatio(row, "ratio_proc_create", n_proc, total)
                 ratio_file == GetRatio(row, "ratio_file_create", n_file, total)
                 ratio_net == GetRatio(row, "ratio_net_conn", n_net, total)
             IN  IF "err" \in {ratio_proc.kind, ratio_file.kind, ratio_net.kind}
                 THEN ValueError
                 ELSE RuleScore(n_proc, n_file, n_net, ratio_proc, ratio_file, ratio_net)

\* Faulty variant of Threshold: a probability equal to the threshold predicts 0.
ThresholdStrict(probs, thr) ==
    [i \in 1..Len(probs) |-> IF FGe(probs[i], thr) /\ probs[i] # thr THEN 1 ELSE 0]

\* preds = (probs >= thr).astype(int)
Threshold(probs, thr) == [i \in 1..Len(probs) |-> IF FGe(probs[i], thr) THEN 1 ELSE 0]

\* A scorer's outcome: ok with (probs, preds, thr, reasons), or an exception.
Raised(msg) == [ok |-> FALSE, probs |-> <<>>, preds |-> <<>>, thr |-> 0,
                reasons |-> <<>>, err |-> msg]

Returned(probs, preds, thr, reasons) ==
    [ok |-> TRUE, probs |-> probs, preds |-> preds, thr |-> thr,
     reasons |-> reasons, err |-> ""]

\* Faulty variant of ReasonsForFirst: the reasons of the last row are kept.
ReasonsForLast(rows) == ComputeBehavScore(rows[Len(rows)]).reasons

\* The reasons predict_behav keeps: those of the row whose index is 0, the
\* first row of a table read by pandas.read_csv.
ReasonsForFirst(rows) == ComputeBehavScore(rows[1]).reasons

\* predict_behav(df), df a sequence of rows.
PredictBehav(rows) ==
    IF rows = <<>>
    THEN Returned(<<0>>, <<0>>, BEHAV_THRESHOLD, <<R_NOEVENTS>>)
    ELSE IF \E i \in 1..Len(rows) : ~ComputeBehavScore(rows[i]).ok
         THEN Raised("could not convert string to float")
         ELSE LET probs == [i \in 1..Len(rows) |-> ComputeBehavScore(rows[i]).score]
              IN  Returned(probs, Threshold(probs, BEHAV_THRESHOLD), BEHAV_THRESHOLD,
                           ReasonsForFirst(rows))

\* Faulty variant of PredictBehavArg: no test for None, so that None.empty
\* raises AttributeError.
PredictBehavArgNoNoneTest(is_none, rows) ==
    IF is_none
    THEN Raised("'NoneType' object has no attribute 'empty'")
    ELSE PredictBehav(rows)

\* predict_behav(df) for any argument: line 70 tests `df is None or df.empty`
\* before anything reads the table.
PredictBehavArg(is_none, rows) ==
    IF is_none \/ rows = <<>>
    THEN Returned(<<0>>, <<0>>, BEHAV_THRESHOLD, <<R_NOEVENTS>>)
    ELSE PredictBehav(rows)

\* ----------------------------------------------------- static scorer

E_ENTROPY == "The file looks heavily scrambled, a common way malware hides itself."

E_CRYPT == "It appears to contain code related to encrypting or changing files."

E_SECTION == "Its internal structure looks unusual compared to normal programs."

E_BTC == "It has patterns related to cryptocurrency usage."

E_WRITE == "It shows patterns similar to fast file changes seen in ransomware."

\* The source writes a typographic apostrophe in "file's".
E_GENERIC == "This file's characteristics look unusual compared to safe files."

\* The keywords of the table of friendly_explanations that occur in the
\* lower-cased name of each feature the model uses.
KeywordsIn(feat) ==
    CASE feat = "entropy_mean" -> {"entropy"}
      [] feat = "section_entropy_max" -> {"section", "entropy"}
      [] feat = "imports_CryptEncrypt" -> {"import", "crypt", "encrypt"}
      [] feat = "NumberOfSections" -> {"section", "numberofsections"}
      [] feat = "btc_address_count" -> {"btc"}
      [] feat = "bulk_write_ops" -> {"write", "bulk"}
      [] feat = "bitcoin_write_rate" -> {"bitcoin", "write"}
      [] OTHER -> {}

\* Faulty variant of SentenceFor: the "section" branch tried before "entropy".
SentenceForSectionFirst(feat) ==
    LET k == KeywordsIn(feat)
    IN  IF k \cap {"section", "numberofsections"} # {} THEN <<E_SECTION>>
        ELSE IF "entropy" \in k THEN <<E_ENTROPY>>
        ELSE IF k \cap {"import", "crypt", "virtualalloc"} # {} THEN <<E_CRYPT>>
        ELSE IF k \cap {"bitcoin", "btc"} # {} THEN <<E_BTC>>
        ELSE IF k \cap {"write", "bulk", "encrypt"} # {} THEN <<E_WRITE>>
        ELSE <<>>

\* The if/elif chain of friendly_explanations for one feature: <<sentence>>,
\* or <<>> when no keyword matches.
SentenceFor(feat) ==
    LET k == KeywordsIn(feat)
    IN  IF "entropy" \in k THEN <<E_ENTROPY>>
        ELSE IF k \cap {"import", "crypt", "virtualalloc"} # {} THEN <<E_CRYPT>>
        ELSE IF k \cap {"section", "numberofsections"} # {} THEN <<E_SECTION>>
        ELSE IF k \cap {"bitcoin", "btc"} # {} THEN <<E_BTC>>
        ELSE IF k \cap {"write", "bulk", "encrypt"} # {} THEN <<E_WRITE>>
        ELSE <<>>

Range(s) == {s[i] : i \in 1..Len(s)}

RECURSIVE Dedupe(_, _)
\* "for m in msgs: if m not in out: out.append(m)"
Dedupe(msgs, out) ==
    IF msgs = <<>> THEN out
    ELSE Dedupe(Tail(msgs), IF Head(msgs) \in Range(out) THEN out ELSE Append(out, Head(msgs)))

RECURSIVE Messages(_)
Messages(top) == IF top = <<>> THEN <<>> ELSE SentenceFor(Head(top)) \o Messages(Tail(top))

Take(s, n) == SubSeq(s, 1, Min2(n, Len(s)))

\* friendly_explanations(top_features)
FriendlyExplanations(top) ==
    LET out == Dedupe(Messages(top), <<>>)
    IN  Take(IF out = <<>> THEN <<E_GENERIC>> ELSE out, 3)

\* The artifact files under models/optimized: whether the model file exists,
\* the model's features ranked by feature_importances_ (<<>> for an estimator
\* without importances), and the threshold of the threshold file.
Artifacts ==
    { [present |-> FALSE, ranked |-> <<>>, thr |-> Pct(50)],
      [present |-> TRUE, thr |-> Pct(50),
       ranked |-> <<"entropy_mean", "imports_CryptEncrypt", "NumberOfSections",
                    "btc_address_count", "bulk_write_ops">>],
      [present |-> TRUE, thr |-> Pct(90),
       ranked |-> <<"section_entropy_max", "entropy_mean", "SizeOfImage">>] }

\* _ensure_order(X, feats), lines 35-37: the columns of X once every missing
\* feature column has been added (X[feats], a new table, is what is returned).
EnsureOrder(cols, feats) == cols \cup Range(feats)

\* Faulty variant of EnsureOrderOnCopy: _ensure_order(df, feats) on the
\* caller's table itself.
EnsureOrderInPlace(cols, feats) ==
    [caller |-> EnsureOrder(cols, feats), x |-> EnsureOrder(cols, feats)]

\* Line 55, X = _ensure_order(df.copy(), feats): the columns of the caller's
\* table and of the private copy afterwards.
EnsureOrderOnCopy(cols, feats) ==
    [caller |-> cols, x |-> EnsureOrder(cols, feats)]

\* _top_features(model, feats, k)
TopFeatures(art, k) == Take(art.ranked, k)

\* The probabilities model.predict_proba may give one row.
StaticProbVals == {Pct(0), Pct(30), Pct(50), Pct(80), Pct(100)}

\* What model.predict_proba(X)[:, 1] may do on a table of n rows: raise, or
\* return one probability per row (an empty array for an empty table).
ProbaOutcomes(n) ==
    {[ok |-> FALSE, probs |-> <<>>]} \cup {[ok |-> TRUE, probs |-> q] : q \in [1..n -> StaticProbVals]}

\* predict_static(df) once _load_once has returned (model, feats, thr).
PredictStaticLoaded(art, proba) ==
    IF ~proba.ok
    THEN Raised("predict_proba failed")
    ELSE Returned(proba.probs, Threshold(proba.probs, art.thr), art.thr,
                  FriendlyExplanations(Take(TopFeatures(art, 5), 3)))

\* predict_static(df): _load_once raises when the model file is absent.
PredictStatic(art, proba) ==
    IF ~art.present THEN Raised("No such file or directory")
    ELSE PredictStaticLoaded(art, proba)

\* ------------------------------------------------------------- fusion

FUSION_W_STATIC == Pct(60)

FUSION_W_BEHAV == Pct(40)

FUSION_THRESHOLD == Pct(50)

SAFE_MAX == Pct(30)

CAUTION_MAX == Pct(70)

\* Faulty variant of risk_band_from_prob: 0.30 itself still banded "Safe".
risk_band_inclusive(p) ==
    IF FLe(p, SAFE_MAX) THEN "Safe"
    ELSE IF FLe(p, CAUTION_MAX) THEN "Caution"
    ELSE "High Risk"

\* risk_band_from_prob(p)
risk_band_from_prob(p) ==
    IF FLt(p, SAFE_MAX) THEN "Safe"
    ELSE IF FLe(p, CAUTION_MAX) THEN "Caution"
    ELSE "High Risk"

\* Faulty variant of Verdict: the threshold itself is not malicious.
VerdictStrict(p) == IF IsNum(p) /\ p > FUSION_THRESHOLD THEN "Malicious" ELSE "Safe"

\* "Malicious" if final_prob >= FUSION_THRESHOLD else "Safe"
Verdict(p) == IF FGe(p, FUSION_THRESHOLD) THEN "Malicious" ELSE "Safe"

\* Faulty variant of WeightedSum: the two weights exchanged.
WeightedSumSwapped(sp, bp) ==
    IF IsNum(sp) /\ IsNum(bp)
    THEN (FUSION_W_BEHAV * sp + FUSION_W_STATIC * bp) \div Scale
    ELSE NaN

\* FUSION_WEIGHTS[0] * static_prob + FUSION_WEIGHTS[1] * behav_prob
WeightedSum(sp, bp) ==
    IF IsNum(sp) /\ IsNum(bp)
    THEN (FUSION_W_STATIC * sp + FUSION_W_BEHAV * bp) \div Scale
    ELSE NaN

\* Faulty variant of FusionLogic: a probability of 0 when both scorers failed.
FusionLogicDefaultZero(sp, bp) ==
    IF sp # None /\ bp # None THEN [raised |-> FALSE, final |-> WeightedSum(sp, bp)]
    ELSE IF sp # None THEN [raised |-> FALSE, final |-> sp]
    ELSE IF bp # None THEN [raised |-> FALSE, final |-> bp]
    ELSE [raised |-> FALSE, final |-> 0]

\* Faulty variant of FusionLogic: a lone scorer's mean still weighted.
FusionLogicWeighted(sp, bp) ==
    IF sp # None /\ bp # None THEN [raised |-> FALSE, final |-> WeightedSum(sp, bp)]
    ELSE IF sp # None THEN [raised |-> FALSE, final |-> WeightedSum(sp, 0)]
    ELSE IF bp # None THEN [raised |-> FALSE, final |-> WeightedSum(0, bp)]
    ELSE [raised |-> TRUE, final |-> None]

\* The fusion logic of lines 92-99: the fused probability, or raised.
FusionLogic(sp, bp) ==
    IF sp # None /\ bp # None THEN [raised |-> FALSE, final |-> WeightedSum(sp, bp)]
    ELSE IF sp # None THEN [raised |-> FALSE, final |-> sp]
    ELSE IF bp # None THEN [raised |-> FALSE, final |-> bp]
    ELSE [raised |-> TRUE, final |-> None]

RECURSIVE ReasonLoop(_, _)
\* The loop of lines 106-113 over what is left of final_reasons.
ReasonLoop(left, reasons) ==
    IF left = <<>> THEN reasons
    ELSE LET r == IF Head(left) \in Range(reasons) THEN reasons
                  ELSE Append(reasons, Head(left))
         IN  IF Len(r) = 3 THEN r ELSE ReasonLoop(Tail(left), r)

\* Faulty variant of FusedReasons: truncation without deduplication.
FusedReasonsNoDedupe(all) == Take(all, 3)

FusedReasons(all) == ReasonLoop(all, <<>>)

\* float(probs.mean()) of a scorer that returned; None otherwise (lines 64-65).
MeanProb(res) == IF res.ok THEN Mean(res.probs) ELSE None

\* final_reasons.extend(reasons), skipped when the scorer raised.
ExtendReasons(all, res) == IF res.ok THEN all \o res.reasons ELSE all

NoScore == [threshold |-> None, mean_probability |-> None]

\* debug_info: keys holds the keys that are set.
EmptyDebug ==
    [keys |-> {}, behavioral |-> NoScore, behavioral_error |-> "",
     static |-> NoScore, static_error |-> "", risk_band |-> "", reasons |-> <<>>]

\* Lines 72-77: the behavioural entry, or the behavioural error marker.
BehavDebug(d, res) ==
    IF res.ok
    THEN [d EXCEPT !.keys = @ \cup {"behavioral"},
                   !.behavioral = [threshold |-> res.thr,
                                   mean_probability |-> Mean(res.probs)]]
    ELSE [d EXCEPT !.keys = @ \cup {"behavioral_error"}, !.behavioral_error = res.err]

\* Faulty variant of StaticDebug: no error marker for a failed static scorer.
StaticDebugNoMarker(d, res) ==
    IF res.ok
    THEN [d EXCEPT !.keys = @ \cup {"static"},
                   !.static = [threshold |-> res.thr,
                               mean_probability |-> Mean(res.probs)]]
    ELSE d

\* Lines 84-89: the static entry, or the static error marker.
StaticDebug(d, res) ==
    IF res.ok
    THEN [d EXCEPT !.keys = @ \cup {"static"},
                   !.static = [threshold |-> res.thr,
                               mean_probability |-> Mean(res.probs)]]
    ELSE [d EXCEPT !.keys = @ \cup {"static_error"}, !.static_error = res.err]

\* ------------------------------------------------------------- inputs

Row(total, n_proc, n_file, n_net, ratio_proc, ratio_file, ratio_net) ==
    [total_events |-> total, n_proc_create |-> n_proc, n_file_create |-> n_file,
     n_net_conn |-> n_net, ratio_proc_create |-> ratio_proc,
     ratio_file_create |-> ratio_file, ratio_net_conn |-> ratio_net]

TotalVals == {Missing, Num(0), Num(100), Num(250), Num(2000), Bad}

\* The cells tried for a count or a ratio with the limit of its rule: absent,
\* empty, text, 0, the limit itself and just above it.
CellVals(limit) == {Missing, NaNCell, Bad, Num(0), Num(limit), Num(limit + 1)}

\* One-row tables that exercise one rule: its count, its ratio and
\* total_events vary, the other columns are absent.
FileRows == {Row(t, Missing, n, Missing, Missing, r, Missing) :
                t \in TotalVals, n \in CellVals(N_FILE_LIMIT), r \in CellVals(RATIO_FILE_LIMIT)}

NetRows == {Row(t, Missing, Missing, n, Missing, Missing, r) :
                t \in TotalVals, n \in CellVals(N_NET_LIMIT), r \in CellVals(RATIO_NET_LIMIT)}

ProcRows == {Row(t, n, Missing, Missing, r, Missing, Missing) :
                t \in TotalVals, n \in CellVals(N_PROC_LIMIT), r \in CellVals(RATIO_PROC_LIMIT)}

\* Rows with every column present, for tables of several rows: one row per
\* score 0, 0.4, 0.6, 0.8 and 1.0, and one with a cell that is no number.
FullRow(n_proc, n_file, n_net) == Row(Num(2000), n_proc, n_file, n_net, Num(0), Num(0), Num(0))

CoreRows ==
    { FullRow(Num(N_PROC_LIMIT), Num(N_FILE_LIMIT), Num(N_NET_LIMIT)),
      FullRow(Num(N_PROC_LIMIT + 1), Num(N_FILE_LIMIT), Num(N_NET_LIMIT + 1)),
      FullRow(Num(N_PROC_LIMIT), Num(N_FILE_LIMIT + 1), Num(N_NET_LIMIT)),
      FullRow(Num(N_PROC_LIMIT), Num(N_FILE_LIMIT + 1), Num(N_NET_LIMIT + 1)),
      FullRow(Num(N_PROC_LIMIT + 1), Num(N_FILE_LIMIT + 1), Num(N_NET_LIMIT + 1)),
      FullRow(Num(N_PROC_LIMIT), Bad, Num(N_NET_LIMIT)) }

\* The columns an uploaded table may have besides the behavioural ones: none,
\* or one of the model's features and a column the model does not know.
StaticColumnSets == {{}, {"entropy_mean", "SizeOfImage"}}

\* A row of a table that has none of the behavioural columns.
NoBehavRow == Row(Missing, Missing, Missing, Missing, Missing, Missing, Missing)

\* The tables a request may upload: a header without rows, one row, or up to
\* MaxRows rows that have the same columns.
Tables ==
    {<<>>} \cup {<<r>> : r \in FileRows \cup NetRows \cup ProcRows}
           \cup UNION {[1..n -> CoreRows] : n \in 1..MaxRows}
           \cup UNION {[1..n -> {NoBehavRow}] : n \in 1..MaxRows}

\* --------------------------------------------------------------- state

VARIABLES
    pc,             \* where combine_model_outputs is: idle, behav, static, fuse, done, failed
    df,             \* the caller's table
    artifact,       \* the artifact files on disk
    g_model,        \* static_model._model: "None" or "model"
    g_feats,        \* static_model._feats: "None" or "feats"
    g_thr,          \* static_model._thr: None or the threshold
    b_res,          \* what predict_behav did (b_probs, b_preds, b_thr, b_reasons)
    s_res,          \* what predict_static did (s_probs, s_preds, s_thr, s_reasons)
    behav_prob,
    static_prob,
    final_reasons,
    debug_info,
    final_prob,
    verdict,
    df_cols,        \* the columns of the caller's table besides the behavioural ones
    x_cols,         \* the columns of X, the table predict_static works on
    exc,            \* the class of the exception that left combine_model_outputs ("" for none)
    df_none,        \* predict_behav called on its own: its argument is None, not a table
    loads,          \* how many times joblib.load(STATIC_MODEL_PATH) has returned
    tpc,            \* per thread: where its call of _load_once is
    tret,           \* per thread: what its call of _load_once returned
    top_features,   \* friendly_explanations called on its own: its argument
    explanations,   \* what that call returned (<<>> before the call)
    endpoint,       \* the endpoint serving the request: "", scan, scan_exe, scan_behavioral
    resp,           \* the HTTP response of the request (NoResp before it is made)
    log_calls,      \* how many times the request has called insert_log
    log_rows,       \* how many rows the request has written to detection_logs
    log_result      \* how the request's call of insert_log ended ("" before it)

\* How many threads call _load_once.
NThreads == 2

Threads == 1..NThreads

\* No value returned (yet).
NoReturn == [model |-> "None", feats |-> "None", thr |-> None]

\* The state of a request around combine_model_outputs.
http == <<endpoint, resp, log_calls, log_rows, log_result>>

\* No response (yet).
NoResp ==
    [status |-> 0, detail |-> "", verdict |-> "", final_prob |-> None,
     risk_band |-> "", reasons |-> <<>>]

\* The state combine_model_outputs never touches.
aux == <<df_none, tpc, tret, top_features, explanations, http>>

vars == <<pc, df, artifact, g_model, g_feats, g_thr, b_res, s_res, behav_prob,
          static_prob, final_reasons, debug_info, final_prob, verdict, loads,
          df_cols, x_cols, exc, aux>>

AuxInit ==
    /\ df_none = FALSE
    /\ tpc = [t \in Threads |-> "out"]
    /\ tret = [t \in Threads |-> NoReturn]
    /\ top_features = <<>>
    /\ explanations = <<>>
    /\ endpoint = ""
    /\ resp = NoResp
    /\ log_calls = 0
    /\ log_rows = 0
    /\ log_result = ""

NotCalled == Raised("not called")

\* The Python class of the exception a scorer raised, by its message:
\* float("abc") raises ValueError, joblib.load of a missing file
\* FileNotFoundError, the estimator ValueError on a table it rejects.
ExcKind(msg) ==
    CASE msg = "could not convert string to float" -> "ValueError"
      [] msg = "No such file or directory" -> "FileNotFoundError"
      [] msg = "predict_proba failed" -> "ValueError"
      [] msg = "Both models failed." -> "RuntimeError"
      [] OTHER -> "Exception"

\* Faulty variant of Caught: `except RuntimeError` in place of `except Exception`.
CaughtRuntimeErrorOnly(kind) == kind = "RuntimeError"

\* `except Exception` (lines 76 and 88) catches every exception class a
\* scorer can raise.
Caught(kind) ==
    kind \in {"Exception", "ValueError", "KeyError", "TypeError", "AttributeError",
              "FileNotFoundError", "RuntimeError"}

\* Lines 61-65 of combine_model_outputs.
Locals ==
    /\ b_res = NotCalled
    /\ s_res = NotCalled
    /\ behav_prob = None
    /\ static_prob = None
    /\ final_reasons = <<>>
    /\ debug_info = EmptyDebug
    /\ final_prob = None
    /\ verdict = ""

Init ==
    /\ pc = "idle"
    /\ df = <<>>
    /\ artifact \in Artifacts
    /\ g_model = "None"
    /\ g_feats = "None"
    /\ g_thr = None
    /\ loads = 0
    /\ df_cols = {}
    /\ x_cols = {}
    /\ exc = ""
    /\ Locals
    /\ AuxInit

\* combine_model_outputs(df) is called with an uploaded table.
Call ==
    /\ pc = "idle"
    /\ df' \in Tables
    /\ df_cols' \in StaticColumnSets
    /\ pc' = "behav"
    /\ UNCHANGED <<x_cols, exc>>
    /\ UNCHANGED <<artifact, g_model, g_feats, g_thr, b_res, s_res, behav_prob,
                   static_prob, final_reasons, debug_info, final_prob, verdict>>
    /\ UNCHANGED aux
    /\ UNCHANGED loads

\* Faulty variant of BehavStep: an exception of predict_behav leaves the
\* function at once, the static scorer never being called.
BehavStepAbort ==
    /\ pc = "behav"
    /\ LET res == PredictBehav(df)
       IN  /\ b_res' = res
           /\ behav_prob' = MeanProb(res)
           /\ final_reasons' = ExtendReasons(final_reasons, res)
           /\ debug_info' = BehavDebug(debug_info, res)
           /\ pc' = IF res.ok THEN "static" ELSE "failed"
           /\ exc' = IF res.ok THEN "" ELSE ExcKind(res.err)
    /\ UNCHANGED <<df, artifact, g_model, g_feats, g_thr, s_res, static_prob,
                   final_prob, verdict>>
    /\ UNCHANGED aux
    /\ UNCHANGED loads
    /\ UNCHANGED <<df_cols, x_cols>>

\* Lines 67-77: the behavioural try block.
BehavStep ==
    /\ pc = "behav"
    /\ LET res == PredictBehav(df)
       IN  /\ b_res' = res
           /\ IF res.ok \/ Caught(ExcKind(res.err))
              THEN /\ behav_prob' = MeanProb(res)
                   /\ final_reasons' = ExtendReasons(final_reasons, res)
                   /\ debug_info' = BehavDebug(debug_info, res)
                   /\ pc' = "static"
                   /\ UNCHANGED exc
              ELSE /\ exc' = ExcKind(res.err)
                   /\ pc' = "failed"
                   /\ UNCHANGED <<behav_prob, final_reasons, debug_info>>
    /\ UNCHANGED <<df, artifact, g_model, g_feats, g_thr, s_res, static_prob,
                   final_prob, verdict>>
    /\ UNCHANGED aux
    /\ UNCHANGED loads
    /\ UNCHANGED <<df_cols, x_cols>>

\* _load_once(): the globals after the call.
LoadOnce ==
    IF g_model = "None" /\ artifact.present
    THEN [model |-> "model", feats |-> "feats", thr |-> artifact.thr]
    ELSE [model |-> g_model, feats |-> g_feats, thr |-> g_thr]

\* Lines 79-89: the static try block; predict_static works on df.copy().
StaticStep ==
    /\ pc = "static"
    /\ \E proba \in ProbaOutcomes(Len(df)) :
         LET res == PredictStatic(artifact, proba)
         IN  /\ s_res' = res
             /\ IF res.ok \/ Caught(ExcKind(res.err))
                THEN /\ static_prob' = MeanProb(res)
                     /\ final_reasons' = ExtendReasons(final_reasons, res)
                     /\ debug_info' = StaticDebug(debug_info, res)
                     /\ pc' = "fuse"
                     /\ UNCHANGED exc
                ELSE /\ exc' = ExcKind(res.err)
                     /\ pc' = "failed"
                     /\ UNCHANGED <<static_prob, final_reasons, debug_info>>
    /\ g_model' = LoadOnce.model
    /\ g_feats' = LoadOnce.feats
    /\ g_thr' = LoadOnce.thr
    /\ loads' = loads + (IF g_model = "None" /\ artifact.present THEN 1 ELSE 0)
    /\ IF LoadOnce.model = "None"
       THEN UNCHANGED <<df_cols, x_cols>>
       ELSE LET e == EnsureOrderOnCopy(df_cols, artifact.ranked)
            IN  df_cols' = e.caller /\ x_cols' = e.x
    /\ UNCHANGED <<df, artifact, b_res, behav_prob, final_prob, verdict>>
    /\ UNCHANGED aux

\* Lines 91-117: the fusion logic, the verdict, the band and the reasons.
Fuse ==
    /\ pc = "fuse"
    /\ LET f == FusionLogic(static_prob, behav_prob)
       IN  IF f.raised
           THEN /\ pc' = "failed"
                /\ exc' = "RuntimeError"
                /\ UNCHANGED <<final_prob, verdict, debug_info>>
           ELSE /\ pc' = "done"
                /\ UNCHANGED exc
                /\ final_prob' = f.final
                /\ verdict' = Verdict(f.final)
                /\ debug_info' = [debug_info EXCEPT
                                    !.keys = @ \cup {"risk_band", "reasons"},
                                    !.risk_band = risk_band_from_prob(f.final),
                                    !.reasons = FusedReasons(final_reasons)]
    /\ UNCHANGED <<df, artifact, g_model, g_feats, g_thr, b_res, s_res, behav_prob,
                   static_prob, final_reasons>>
    /\ UNCHANGED aux
    /\ UNCHANGED loads
    /\ UNCHANGED <<df_cols, x_cols>>

\* The call has returned or raised; its locals are gone.
Return ==
    /\ pc \in {"done", "failed"}
    /\ pc' = "idle"
    /\ df' = <<>>
    /\ b_res' = NotCalled
    /\ s_res' = NotCalled
    /\ behav_prob' = None
    /\ static_prob' = None
    /\ final_reasons' = <<>>
    /\ debug_info' = EmptyDebug
    /\ final_prob' = None
    /\ verdict' = ""
    /\ df_cols' = {}
    /\ x_cols' = {}
    /\ exc' = ""
    /\ UNCHANGED <<artifact, g_model, g_feats, g_thr>>
    /\ UNCHANGED aux
    /\ UNCHANGED loads

Next == Call \/ BehavStep \/ StaticStep \/ Fuse \/ Return

Spec == Init /\ [][Next]_vars

\* ------------------------------------------- the fusion logic on its own

\* The reasons a scorer standing in for predict_behav or predict_static may
\* return: any list of at most MaxStubReasons of four strings.
StubReasons == UNION {[1..n -> {"A", "B", "C", "D"}] : n \in 0..MaxStubReasons}

\* What such a scorer may do: raise, or return one probability and reasons.
StubResults(p, thr) ==
    {Raised("stub failed")}
    \cup {Returned(<<p>>, Threshold(<<p>>, thr), thr, rs) : rs \in StubReasons}

\* combine_model_outputs at line 91, after its two try blocks ran on scorers
\* that did b and s.
InitFuse ==
    /\ pc = "fuse"
    /\ df = <<>>
    /\ artifact = [present |-> FALSE, ranked |-> <<>>, thr |-> Pct(50)]
    /\ g_model = "None"
    /\ g_feats = "None"
    /\ g_thr = None
    /\ b_res \in StubResults(Pct(20), BEHAV_THRESHOLD)
    /\ s_res \in StubResults(Pct(80), Pct(50))
    /\ behav_prob = MeanProb(b_res)
    /\ static_prob = MeanProb(s_res)
    /\ final_reasons = ExtendReasons(ExtendReasons(<<>>, b_res), s_res)
    /\ debug_info = StaticDebug(BehavDebug(EmptyDebug, b_res), s_res)
    /\ final_prob = None
    /\ verdict = ""
    /\ loads = 0
    /\ df_cols = {}
    /\ x_cols = {}
    /\ exc = ""
    /\ AuxInit

NextFuse == Fuse

SpecFuse == InitFuse /\ [][NextFuse]_vars

\* ------------------------------------------ predict_behav on its own

\* What predict_behav neither reads nor writes.
notBehav == <<http, exc, artifact, g_model, g_feats, g_thr, s_res, behav_prob, static_prob,
              final_reasons, debug_info, final_prob, verdict, df_cols, x_cols,
              top_features, explanations>>

\* predict_behav(df) called directly, with None or with a table.
CallBehav ==
    /\ pc = "idle"
    /\ \E is_none \in BOOLEAN, rows \in Tables :
         /\ is_none => rows = <<>>
         /\ df_none' = is_none
         /\ df' = rows
         /\ b_res' = PredictBehavArg(is_none, rows)
    /\ pc' = "behav_returned"
    /\ UNCHANGED <<notBehav, tpc, tret>>
    /\ UNCHANGED loads

\* The caller drops the result.
ReturnBehav ==
    /\ pc = "behav_returned"
    /\ pc' = "idle"
    /\ df' = <<>>
    /\ df_none' = FALSE
    /\ b_res' = NotCalled
    /\ UNCHANGED <<notBehav, tpc, tret>>
    /\ UNCHANGED loads

NextBehav == CallBehav \/ ReturnBehav

SpecBehav == Init /\ [][NextBehav]_vars

\* ------------------------------------------ _load_once, step by step

\* The artifact files of a deployment: each of the model, the feature list
\* and the threshold file is there or not.
LoadArtifacts ==
    {[present |-> m, feats_present |-> f, thr_present |-> h, ranked |-> <<>>, thr |-> Pct(90)] :
        m \in BOOLEAN, f \in BOOLEAN, h \in BOOLEAN}

\* What _load_once neither reads nor writes.
notLoad == <<http, exc, pc, df, df_cols, x_cols, df_none, artifact, b_res, s_res, behav_prob,
             static_prob, final_reasons, debug_info, final_prob, verdict,
             top_features, explanations>>

InitLoad ==
    /\ pc = "idle"
    /\ df = <<>>
    /\ artifact \in LoadArtifacts
    /\ g_model = "None"
    /\ g_feats = "None"
    /\ g_thr = None
    /\ loads = 0
    /\ df_cols = {}
    /\ x_cols = {}
    /\ exc = ""
    /\ Locals
    /\ AuxInit

\* Line 22: thread t calls _load_once and tests `_model is None`.
TestModel(t) ==
    /\ tpc[t] = "out"
    /\ tpc' = [tpc EXCEPT ![t] = IF g_model = "None" THEN "load_model" ELSE "return"]
    /\ UNCHANGED <<g_model, g_feats, g_thr, loads, tret, notLoad>>

\* Line 23: _model = joblib.load(STATIC_MODEL_PATH); raises without the file.
LoadModel(t) ==
    /\ tpc[t] = "load_model"
    /\ IF artifact.present
       THEN /\ g_model' = "model"
            /\ loads' = loads + 1
            /\ tpc' = [tpc EXCEPT ![t] = "load_feats"]
       ELSE /\ tpc' = [tpc EXCEPT ![t] = "raised"]
            /\ UNCHANGED <<g_model, loads>>
    /\ UNCHANGED <<g_feats, g_thr, tret, notLoad>>

\* Lines 24-25: _feats = the feature list; raises without the file.
LoadFeats(t) ==
    /\ tpc[t] = "load_feats"
    /\ IF artifact.feats_present
       THEN /\ g_feats' = "feats"
            /\ tpc' = [tpc EXCEPT ![t] = "load_thr"]
       ELSE /\ tpc' = [tpc EXCEPT ![t] = "raised"]
            /\ UNCHANGED g_feats
    /\ UNCHANGED <<g_model, g_thr, loads, tret, notLoad>>

\* Lines 26-31: _thr = the stored threshold, or 0.5 when it cannot be read.
LoadThr(t) ==
    /\ tpc[t] = "load_thr"
    /\ g_thr' = IF artifact.thr_present THEN artifact.thr ELSE Pct(50)
    /\ tpc' = [tpc EXCEPT ![t] = "return"]
    /\ UNCHANGED <<g_model, g_feats, loads, tret, notLoad>>

\* Line 32: return _model, _feats, _thr.
ReturnLoad(t) ==
    /\ tpc[t] = "return"
    /\ tret' = [tret EXCEPT ![t] = [model |-> g_model, feats |-> g_feats, thr |-> g_thr]]
    /\ tpc' = [tpc EXCEPT ![t] = "returned"]
    /\ UNCHANGED <<g_model, g_feats, g_thr, loads, notLoad>>

\* The caller of thread t goes on; the thread may call again.
LeaveLoad(t) ==
    /\ tpc[t] \in {"returned", "raised"}
    /\ tpc' = [tpc EXCEPT ![t] = "out"]
    /\ tret' = [tret EXCEPT ![t] = NoReturn]
    /\ UNCHANGED <<g_model, g_feats, g_thr, loads, notLoad>>

NextLoad ==
    \E t \in Threads :
        \/ TestModel(t)
        \/ LoadModel(t)
        \/ LoadFeats(t)
        \/ LoadThr(t)
        \/ ReturnLoad(t)
        \/ LeaveLoad(t)

SpecLoad == InitLoad /\ [][NextLoad]_vars

\* --------------------------------------- friendly_explanations on its own

\* How many features a list handed to friendly_explanations has at most.
MaxTop == 4

\* The feature names tried: one or two per keyword group, two that match
\* several groups, and one that matches none.
FeatureNames ==
    {"entropy_mean", "section_entropy_max", "imports_CryptEncrypt", "NumberOfSections",
     "btc_address_count", "bulk_write_ops", "bitcoin_write_rate", "SizeOfImage"}

TopLists == UNION {[1..n -> FeatureNames] : n \in 0..MaxTop}

\* What friendly_explanations neither reads nor writes.
notExplain == <<http, exc, pc, df, df_cols, x_cols, df_none, artifact, g_model, g_feats, g_thr,
                loads, tpc, tret, b_res, s_res, behav_prob, static_prob,
                final_reasons, debug_info, final_prob, verdict>>

\* friendly_explanations(top_features) called with a list of features.
CallExplain ==
    /\ explanations = <<>>
    /\ \E top \in TopLists :
         /\ top_features' = top
         /\ explanations' = FriendlyExplanations(top)
    /\ UNCHANGED notExplain

\* The caller drops the result.
ReturnExplain ==
    /\ explanations # <<>>
    /\ top_features' = <<>>
    /\ explanations' = <<>>
    /\ UNCHANGED notExplain

NextExplain == CallExplain \/ ReturnExplain

SpecExplain == Init /\ [][NextExplain]_vars

\* ------------------------------------------------ the three scan endpoints

\* What of the state a request does not touch.
notScan == <<df_none, tpc, tret, top_features, explanations>>

\* The locals of combine_model_outputs and of the single-scorer endpoints.
scanLocals == <<b_res, s_res, behav_prob, static_prob, final_reasons, debug_info,
                final_prob, verdict>>

\* raise HTTPException(status_code=code, detail=...).
HttpError(code, detail) ==
    [status |-> code, detail |-> detail, verdict |-> "", final_prob |-> None,
     risk_band |-> "", reasons |-> <<>>]

\* The returned dict: "status": "ok" with verdict, final_prob, risk_band, reasons.
OkResponse(v, p, band, reasons) ==
    [status |-> 200, detail |-> "ok", verdict |-> v, final_prob |-> p,
     risk_band |-> band, reasons |-> reasons]

\* The tables an upload may parse to: a header without rows, one row, two rows.
ScanTables ==
    {<<>>} \cup {<<r>> : r \in CoreRows \cup {NoBehavRow}}
           \cup {<<r, q>> : r \in CoreRows, q \in CoreRows}

\* pd.read_csv on the upload: EmptyDataError, another exception (and read_excel
\* fails too), or a table.
ParseOutcomes == {"empty", "invalid", "table"}

ParseDetail(parse) ==
    IF parse = "empty" THEN "Uploaded file is empty." ELSE "Invalid file format."

\* /scan up to the call of combine_model_outputs.
ScanRequest ==
    /\ pc = "idle"
    /\ endpoint' = "scan"
    /\ \E parse \in ParseOutcomes :
         IF parse = "table"
         THEN /\ df' \in ScanTables
              /\ df_cols' \in StaticColumnSets
              /\ pc' = "behav"
              /\ UNCHANGED resp
         ELSE /\ resp' = HttpError(400, ParseDetail(parse))
              /\ pc' = "responded"
              /\ UNCHANGED <<df, df_cols>>
    /\ UNCHANGED <<artifact, g_model, g_feats, g_thr, loads, x_cols, exc>>
    /\ UNCHANGED <<log_calls, log_rows, log_result>>
    /\ UNCHANGED scanLocals
    /\ UNCHANGED notScan

\* The except clauses of scan_file around combine_model_outputs, by the class
\* of the exception that reached them.
ScanFailure(kind) ==
    CASE kind = "KeyError" -> HttpError(400, "Missing required column in CSV")
      [] kind = "ValueError" -> HttpError(400, "Invalid value in CSV")
      [] OTHER -> HttpError(500, "Model inference failed")

\* /scan when combine_model_outputs raised.
ScanFail ==
    /\ pc = "failed"
    /\ endpoint = "scan"
    /\ resp' = ScanFailure(exc)
    /\ pc' = "responded"
    /\ UNCHANGED <<df, df_cols, x_cols, exc, endpoint>>
    /\ UNCHANGED <<artifact, g_model, g_feats, g_thr, loads>>
    /\ UNCHANGED <<log_calls, log_rows, log_result>>
    /\ UNCHANGED scanLocals
    /\ UNCHANGED notScan

\* Faulty variant of SingleVerdict: the behavioural threshold decides.
SingleVerdictBehavThreshold(p) == IF FGe(p, BEHAV_THRESHOLD) THEN "Malicious" ELSE "Safe"

\* The verdict of a single-scorer endpoint.
SingleVerdict(p) == IF FGe(p, FUSION_THRESHOLD) THEN "Malicious" ELSE "Safe"

\* The filename test and extract_pe_features(raw_bytes): the name is no .exe
\* or .dll, pefile rejects the bytes, or the bytes are a PE file.
ExeOutcomes == {"extension", "not pe", "pe"}

\* /scan_exe up to the call of predict_static. extract_pe_features calls
\* get_static_feature_names, that is _load_once, and returns one row that has
\* the model's features and no behavioural column.
ScanExeRequest ==
    /\ pc = "idle"
    /\ endpoint' = "scan_exe"
    /\ \E o \in ExeOutcomes :
         CASE o = "extension" ->
                /\ resp' = HttpError(400, "Please upload a Windows PE executable (.exe or .dll).")
                /\ pc' = "responded"
                /\ UNCHANGED <<df, df_cols, g_model, g_feats, g_thr, loads>>
           [] o = "not pe" ->
                /\ resp' = HttpError(400, "File is not a valid PE executable (.exe/.dll).")
                /\ pc' = "responded"
                /\ UNCHANGED <<df, df_cols, g_model, g_feats, g_thr, loads>>
           [] o = "pe" /\ ~artifact.present ->
                /\ resp' = HttpError(500, "Failed to extract PE features")
                /\ pc' = "responded"
                /\ UNCHANGED <<df, df_cols, g_model, g_feats, g_thr, loads>>
           [] o = "pe" /\ artifact.present ->
                /\ g_model' = LoadOnce.model
                /\ g_feats' = LoadOnce.feats
                /\ g_thr' = LoadOnce.thr
                /\ loads' = loads + (IF g_model = "None" THEN 1 ELSE 0)
                /\ df' = <<NoBehavRow>>
                /\ df_cols' = Range(artifact.ranked)
                /\ pc' = "exe_static"
                /\ UNCHANGED resp
    /\ UNCHANGED <<artifact, x_cols, exc>>
    /\ UNCHANGED <<log_calls, log_rows, log_result>>
    /\ UNCHANGED scanLocals
    /\ UNCHANGED notScan

\* /scan_exe from predict_static to the debug dict.
ScanExeStep ==
    /\ pc = "exe_static"
    /\ \E proba \in ProbaOutcomes(Len(df)) :
         LET res == PredictStatic(artifact, proba)
             p == Mean(res.probs)
         IN  /\ s_res' = res
             /\ IF res.ok
                THEN /\ static_prob' = p
                     /\ final_prob' = p
                     /\ verdict' = SingleVerdict(p)
                     /\ debug_info' =
                          [EmptyDebug EXCEPT
                             !.keys = {"static", "behavioral_error", "risk_band", "reasons"},
                             !.static = [threshold |-> res.thr, mean_probability |-> p],
                             !.behavioral_error = "No behavioural data for EXE scan (static-only).",
                             !.risk_band = risk_band_from_prob(p),
                             !.reasons = res.reasons]
                     /\ pc' = "done"
                     /\ UNCHANGED resp
                ELSE /\ resp' = HttpError(500, "Static model inference failed")
                     /\ pc' = "responded"
                     /\ UNCHANGED <<static_prob, final_prob, verdict, debug_info>>
    /\ g_model' = LoadOnce.model
    /\ g_feats' = LoadOnce.feats
    /\ g_thr' = LoadOnce.thr
    /\ loads' = loads + (IF g_model = "None" /\ artifact.present THEN 1 ELSE 0)
    /\ IF LoadOnce.model = "None"
       THEN UNCHANGED <<df_cols, x_cols>>
       ELSE LET e == EnsureOrderOnCopy(df_cols, artifact.ranked)
            IN  df_cols' = e.caller /\ x_cols' = e.x
    /\ UNCHANGED <<df, artifact, exc, endpoint, b_res, behav_prob, final_reasons>>
    /\ UNCHANGED <<log_calls, log_rows, log_result>>
    /\ UNCHANGED notScan

\* /scan_behavioral up to the call of predict_behav.
ScanBehavioralRequest ==
    /\ pc = "idle"
    /\ endpoint' = "scan_behavioral"
    /\ \E parse \in ParseOutcomes :
         IF parse = "table"
         THEN /\ df' \in ScanTables
              /\ pc' = "behav_only"
              /\ UNCHANGED resp
         ELSE /\ resp' = HttpError(400, ParseDetail(parse))
              /\ pc' = "responded"
              /\ UNCHANGED df
    /\ UNCHANGED <<artifact, g_model, g_feats, g_thr, loads, df_cols, x_cols, exc>>
    /\ UNCHANGED <<log_calls, log_rows, log_result>>
    /\ UNCHANGED scanLocals
    /\ UNCHANGED notScan

\* /scan_behavioral from predict_behav to the debug dict.
ScanBehavioralStep ==
    /\ pc = "behav_only"
    /\ LET res == PredictBehav(df)
           p == Mean(res.probs)
       IN  /\ b_res' = res
           /\ IF res.ok
              THEN /\ behav_prob' = p
                   /\ final_prob' = p
                   /\ verdict' = SingleVerdict(p)
                   /\ debug_info' =
                        [EmptyDebug EXCEPT
                           !.keys = {"behavioral", "risk_band", "reasons"},
                           !.behavioral = [threshold |-> res.thr, mean_probability |-> p],
                           !.risk_band = risk_band_from_prob(p),
                           !.reasons = res.reasons]
                   /\ pc' = "done"
                   /\ UNCHANGED resp
              ELSE /\ resp' = HttpError(500, "Behavioural model inference failed")
                   /\ pc' = "responded"
                   /\ UNCHANGED <<behav_prob, final_prob, verdict, debug_info>>
    /\ UNCHANGED <<df, df_cols, x_cols, artifact, g_model, g_feats, g_thr, loads, exc,
                   endpoint, s_res, static_prob, final_reasons>>
    /\ UNCHANGED <<log_calls, log_rows, log_result>>
    /\ UNCHANGED notScan

\* How a call of insert_log may end: the row is written; get_connection
\* returned None; mysql's Error was caught inside; an exception left the call.
LogOutcomes == {"written", "no connection", "db error", "raised"}

\* Faulty variant of ResponseAfterLog: no try/except around insert_log, so its
\* exception reaches the endpoint's outer handler.
ResponseAfterLogUncaught(o, v, p, band, reasons) ==
    IF o = "raised" THEN HttpError(500, "Internal server error")
    ELSE OkResponse(v, p, band, reasons)

\* The response once insert_log has ended: `except Exception` only prints.
ResponseAfterLog(o, v, p, band, reasons) == OkResponse(v, p, band, reasons)

\* The end of each endpoint: insert_log(filename, verdict, probability) in its
\* try block, then the returned dict.
ScanLog ==
    /\ pc = "done"
    /\ endpoint # ""
    /\ \E o \in LogOutcomes :
         /\ log_calls' = log_calls + 1
         /\ log_rows' = log_rows + (IF o = "written" THEN 1 ELSE 0)
         /\ log_result' = o
         /\ resp' = ResponseAfterLog(o, verdict, final_prob, debug_info.risk_band,
                                     debug_info.reasons)
    /\ pc' = "responded"
    /\ UNCHANGED <<df, df_cols, x_cols, exc, endpoint>>
    /\ UNCHANGED <<artifact, g_model, g_feats, g_thr, loads>>
    /\ UNCHANGED scanLocals
    /\ UNCHANGED notScan

\* The response is sent; the request's state is gone, the module's stays.
ScanReturn ==
    /\ pc = "responded"
    /\ pc' = "idle"
    /\ df' = <<>>
    /\ df_cols' = {}
    /\ x_cols' = {}
    /\ exc' = ""
    /\ b_res' = NotCalled
    /\ s_res' = NotCalled
    /\ behav_prob' = None
    /\ static_prob' = None
    /\ final_reasons' = <<>>
    /\ debug_info' = EmptyDebug
    /\ final_prob' = None
    /\ verdict' = ""
    /\ endpoint' = ""
    /\ resp' = NoResp
    /\ log_calls' = 0
    /\ log_rows' = 0
    /\ log_result' = ""
    /\ UNCHANGED <<artifact, g_model, g_feats, g_thr, loads>>
    /\ UNCHANGED notScan

NextScan ==
    \/ ScanRequest \/ BehavStep \/ StaticStep \/ Fuse \/ ScanFail
    \/ ScanExeRequest \/ ScanExeStep
    \/ ScanBehavioralRequest \/ ScanBehavioralStep
    \/ ScanLog \/ ScanReturn

SpecScan == Init /\ [][NextScan]_vars

\* ------------------------------------------------------------- claims

Band == debug_info.risk_band

BothCalled == b_res # NotCalled /\ s_res # NotCalled

\* m is the row-wise average of probs (NaN for no row), without division.
IsMeanOf(m, probs) ==
    IF Len(probs) = 0 THEN m = NaN ELSE Len(probs) * m = SeqSum(probs)

\* C1: when both scorers succeed, the returned final_prob is
\* 0.6 * static_mean + 0.4 * behav_mean, each mean being the sum of that
\* scorer's probabilities over their number (stated without division; a
\* static scorer that returns no probability has mean NaN, and so has the sum).
C1_WeightedFusion ==
    (pc = "done" /\ b_res.ok /\ s_res.ok) =>
        LET nb == Len(b_res.probs)
            ns == Len(s_res.probs)
        IN  IF ns = 0 \/ nb = 0
            THEN final_prob = NaN
            ELSE 100 * ns * nb * final_prob
                   = 60 * nb * SeqSum(s_res.probs) + 40 * ns * SeqSum(b_res.probs)

\* C1 witness: static mean 0.8 and behavioural mean 0.2 fused to 0.56.
C1_Witness ==
    /\ pc = "done" /\ b_res.ok /\ s_res.ok
    /\ s_res.probs = <<Pct(80)>> /\ b_res.probs = <<Pct(20)>>
    /\ final_prob = Pct(56)

\* C2: combine_model_outputs raises exactly when both scorers failed, and
\* then no probability and no verdict is returned; when at least one scorer
\* succeeded it returns a probability and a verdict.
C2_FailsIffBothFailed ==
    /\ pc = "failed" => (~b_res.ok /\ ~s_res.ok /\ final_prob = None /\ verdict = "")
    /\ pc = "done" => ((b_res.ok \/ s_res.ok) /\ final_prob # None
                        /\ verdict \in {"Malicious", "Safe"})
    /\ pc \in {"done", "failed"} => BothCalled

\* C2 witness: both scorers failed and the call raised.
C2_Witness == pc = "failed" /\ ~b_res.ok /\ ~s_res.ok /\ BothCalled /\ df # <<>>

\* C3: when exactly one scorer succeeds, final_prob is that scorer's mean
\* probability with no weight applied.
C3_SingleUnweighted ==
    /\ (pc = "done" /\ b_res.ok /\ ~s_res.ok) => IsMeanOf(final_prob, b_res.probs)
    /\ (pc = "done" /\ s_res.ok /\ ~b_res.ok) => IsMeanOf(final_prob, s_res.probs)

\* C3 witness: behavioural mean 0.9 with the static scorer failed gives 0.9,
\* "Malicious", "High Risk".
C3_Witness ==
    /\ pc = "done" /\ b_res.ok /\ ~s_res.ok
    /\ IsMeanOf(Pct(90), b_res.probs)
    /\ final_prob = Pct(90) /\ verdict = "Malicious" /\ Band = "High Risk"

\* C4: the verdict is "Malicious" exactly when final_prob >= 0.50 and "Safe"
\* otherwise, whatever the components' thresholds and predictions are.
C4_VerdictThreshold ==
    pc = "done" =>
        /\ verdict = "Malicious" <=> (final_prob # NaN /\ final_prob >= Pct(50))
        /\ verdict = "Safe" <=> ~(final_prob # NaN /\ final_prob >= Pct(50))

\* C4 witness: a "Malicious" verdict though neither component predicted 1
\* (static 0.8 under its threshold 0.9, behavioural 0.4 under 0.6).
C4_Witness ==
    /\ pc = "done" /\ verdict = "Malicious" /\ b_res.ok /\ s_res.ok
    /\ s_res.thr = Pct(90)
    /\ \A i \in 1..Len(s_res.preds) : s_res.preds[i] = 0
    /\ \A i \in 1..Len(b_res.preds) : b_res.preds[i] = 0

AllReasons ==
    (IF b_res.ok THEN b_res.reasons ELSE <<>>) \o (IF s_res.ok THEN s_res.reasons ELSE <<>>)

\* The places of a list where a string occurs for the first time.
Firsts(all) == {i \in 1..Len(all) : \A j \in 1..(i - 1) : all[j] # all[i]}

\* C6: the fused reasons are the first 3 distinct strings of the behavioural
\* reasons followed by the static reasons: at most 3, no two equal, in
\* first-seen order.
C6_FusedReasons ==
    pc = "done" =>
        LET all == AllReasons
            out == debug_info.reasons
            F == Firsts(all)
        IN  /\ Len(out) = Min2(3, Cardinality(F))
            /\ \A k \in 1..Len(out) :
                 \E i \in F : Cardinality({j \in F : j <= i}) = k /\ out[k] = all[i]
            /\ \A k, m \in 1..Len(out) : k # m => out[k] # out[m]

\* C6 witness: behavioural [A, B] and static [B, C, D] yield [A, B, C].
C6_Witness ==
    /\ pc = "done" /\ b_res.ok /\ s_res.ok
    /\ b_res.reasons = <<"A", "B">> /\ s_res.reasons = <<"B", "C", "D">>
    /\ debug_info.reasons = <<"A", "B", "C">>

\* C7: a failure of one scorer never keeps the other from being called and
\* from contributing its probability and reasons; the call raises only when
\* both failed.
C7_IndependentScorers ==
    /\ pc \in {"fuse", "done", "failed"} => BothCalled
    /\ (pc \in {"fuse", "done"} /\ ~b_res.ok /\ s_res.ok) =>
          /\ static_prob # None
          /\ final_reasons = s_res.reasons
          /\ pc = "done" => (final_prob = static_prob /\ debug_info.reasons = s_res.reasons)
    /\ (pc \in {"fuse", "done"} /\ b_res.ok /\ ~s_res.ok) =>
          /\ behav_prob # None
          /\ final_reasons = b_res.reasons
          /\ pc = "done" => (final_prob = behav_prob /\ debug_info.reasons = b_res.reasons)
    /\ pc = "failed" => (~b_res.ok /\ ~s_res.ok)

\* C7 witness: predict_behav raised, predict_static was called and its
\* probability and reasons were returned.
C7_Witness ==
    /\ pc = "done" /\ ~b_res.ok /\ b_res # NotCalled /\ s_res.ok
    /\ final_prob = Pct(80) /\ debug_info.reasons = s_res.reasons

\* C8: in a returned result each component has its mean probability and its
\* threshold recorded under its name if it succeeded, and an error marker
\* string if it failed; exactly one of the two is present per component.
C8_ComponentScores ==
    pc = "done" =>
        /\ "behavioral" \in debug_info.keys <=> b_res.ok
        /\ "behavioral_error" \in debug_info.keys <=> ~b_res.ok
        /\ "static" \in debug_info.keys <=> s_res.ok
        /\ "static_error" \in debug_info.keys <=> ~s_res.ok
        /\ b_res.ok => (/\ debug_info.behavioral.threshold = Pct(60)
                        /\ IsMeanOf(debug_info.behavioral.mean_probability, b_res.probs))
        /\ s_res.ok => (/\ debug_info.static.threshold = artifact.thr
                        /\ IsMeanOf(debug_info.static.mean_probability, s_res.probs))
        /\ ~b_res.ok => debug_info.behavioral_error = b_res.err /\ b_res.err # ""
        /\ ~s_res.ok => debug_info.static_error = s_res.err /\ s_res.err # ""

\* C8 witness: a result with the behavioural score and the static error marker.
C8_Witness ==
    /\ pc = "done"
    /\ "behavioral" \in debug_info.keys /\ "static_error" \in debug_info.keys
    /\ "static" \notin debug_info.keys /\ artifact.present

\* The rules a row triggers, read off the floats of lines 22-29: a count over
\* its limit, or a ratio num/den over its limit (in hundredths).
Over(r, hundredths) == r.kind = "num" /\ r.num * 100 > hundredths * r.den

Triggered(row) ==
    LET total == GetFloat(row, "total_events")
        n_proc == GetFloat(row, "n_proc_create")
        n_file == GetFloat(row, "n_file_create")
        n_net == GetFloat(row, "n_net_conn")
        ratio_proc == GetRatio(row, "ratio_proc_create", n_proc, total)
        ratio_file == GetRatio(row, "ratio_file_create", n_file, total)
        ratio_net == GetRatio(row, "ratio_net_conn", n_net, total)
    IN  [file |-> (n_file.kind = "num" /\ n_file.v > 1000) \/ Over(ratio_file, 50),
         net |-> (n_net.kind = "num" /\ n_net.v > 5) \/ Over(ratio_net, 2),
         proc |-> (n_proc.kind = "num" /\ n_proc.v > 10) \/ Over(ratio_proc, 2)]

\* The sum of the weights of the triggered rules, in hundredths.
WeightSum(t) ==
    (IF t.file THEN 60 ELSE 0) + (IF t.net THEN 20 ELSE 0) + (IF t.proc THEN 20 ELSE 0)

\* C9: for every behavioural row the score is the sum of the weights of the
\* triggered rules (file 0.6, network 0.2, process 0.2) clamped to [0, 1], it
\* lies in [0, 1], and predictions[i] = 1 exactly when score[i] >= 0.6.
C9_RowScore ==
    (b_res.ok /\ df # <<>>) =>
        /\ Len(b_res.probs) = Len(df) /\ Len(b_res.preds) = Len(df)
        /\ \A i \in 1..Len(df) :
             LET w == WeightSum(Triggered(df[i]))
             IN  /\ 100 * b_res.probs[i] = Scale * (IF w > 100 THEN 100 ELSE w)
                 /\ 0 <= b_res.probs[i] /\ b_res.probs[i] <= Scale
                 /\ b_res.preds[i] \in {0, 1}
                 /\ b_res.preds[i] = 1 <=> 100 * b_res.probs[i] >= 60 * Scale

\* C9 witness: two rows scored 0.4 (network and process rules) and 0.6 (file
\* rule alone), predicted 0 and 1.
C9_Witness ==
    /\ b_res.ok /\ Len(df) = 2
    /\ b_res.probs = <<Pct(40), Pct(60)>> /\ b_res.preds = <<0, 1>>
    /\ Triggered(df[1]) = [file |-> FALSE, net |-> TRUE, proc |-> TRUE]
    /\ Triggered(df[2]) = [file |-> TRUE, net |-> FALSE, proc |-> FALSE]

\* The reasons of one row: one per triggered rule in the order file, network,
\* process, or the single "within normal ranges" reason.
RowReasons(row) ==
    LET t == Triggered(row)
        rs == (IF t.file THEN <<R_FILE>> ELSE <<>>) \o (IF t.net THEN <<R_NET>> ELSE <<>>)
              \o (IF t.proc THEN <<R_PROC>> ELSE <<>>)
    IN  IF rs = <<>> THEN <<R_NORMAL>> ELSE rs

\* C10: predict_behav returns probabilities and predictions for all rows but
\* the reasons of the first row only; the rows after the first never change
\* the reasons returned.
C10_FirstRowReasons ==
    (b_res.ok /\ df # <<>>) =>
        /\ Len(b_res.probs) = Len(df) /\ Len(b_res.preds) = Len(df)
        /\ b_res.reasons = RowReasons(df[1])
        /\ b_res.reasons = PredictBehav(<<df[1]>>).reasons

\* C10 witness: a first row within normal ranges followed by a row that
\* triggers all three rules; the reasons are the first row's.
C10_Witness ==
    /\ b_res.ok /\ Len(df) = 2
    /\ b_res.probs = <<0, Scale>>
    /\ b_res.reasons = <<R_NORMAL>>
    /\ RowReasons(df[2]) = <<R_FILE, R_NET, R_PROC>>

\* C11: predict_behav never raises: in every row a field that is missing or
\* holds a value that cannot be converted to a number counts as 0, and the
\* scoring completes with a result.
C11_NeverRaises == b_res # NotCalled => b_res.ok

\* A cell that is an absent column or a number.
Plain(c) == c.kind \in {"missing", "num"}

\* The number an absent or numeric cell stands for: 0 when absent.
CellNum(c) == IF c.kind = "missing" THEN 0 ELSE c.v

\* A ratio that is not supplied: its column is absent or its value is 0.
RatioAbsent(c) == c.kind = "missing" \/ (c.kind = "num" /\ c.v = 0)

\* A rule's outcome for a row whose ratio is not supplied: the count over its
\* limit, or count / total_events over the ratio limit (in thousandths) when
\* total_events > 0; the ratio is 0 when total_events = 0.
DerivedRule(row, count, count_limit, ratio_limit) ==
    LET n == CellNum(row[count])
        total == CellNum(row["total_events"])
    IN  n > count_limit \/ (total > 0 /\ n * 1000 > ratio_limit * total)

\* The sum of the weights, in hundredths, of the rules a row without supplied
\* ratios triggers.
DerivedWeights(row) ==
    (IF DerivedRule(row, "n_file_create", 1000, 500) THEN 60 ELSE 0)
    + (IF DerivedRule(row, "n_net_conn", 5, 20) THEN 20 ELSE 0)
    + (IF DerivedRule(row, "n_proc_create", 10, 20) THEN 20 ELSE 0)

\* The rows C12 is about: absent or numeric cells, no ratio supplied.
RatiosDerived(row) ==
    /\ \A c \in DOMAIN row : Plain(row[c])
    /\ \A c \in {"ratio_proc_create", "ratio_file_create", "ratio_net_conn"} :
         RatioAbsent(row[c])

C13_NoEvents ==
    (pc = "behav_returned" /\ (df_none \/ df = <<>>)) =>
        /\ b_res.ok
        /\ b_res.probs = <<0>>
        /\ b_res.preds = <<0>>
        /\ b_res.thr = Pct(60)
        /\ b_res.reasons = <<"No behavioural events available for analysis.">>

\* C13 witness: predict_behav(None) has returned the "no events" result.
C13_Witness ==
    /\ pc = "behav_returned" /\ df_none
    /\ b_res.ok /\ b_res.probs = <<0>> /\ b_res.reasons = <<R_NOEVENTS>>

\* C14: across any number of calls of _load_once, concurrent first calls from
\* several threads included, the static model artifact is loaded at most once
\* per process.
C14_LoadedAtMostOnce == loads <= 1

\* C20: whenever _load_once returns, under any interleaving of concurrent
\* callers and also after an earlier call that raised part-way through
\* loading, the returned model, feature list and threshold are all
\* initialised: no caller gets a loaded model with an unset feature list or
\* threshold.
C20_ReturnsInitialised ==
    \A t \in Threads :
        tpc[t] = "returned" =>
            (tret[t].model # "None" /\ tret[t].feats # "None" /\ tret[t].thr # None)

\* C15: the verdict and the risk band are jointly constrained by the fused
\* probability: the result is "Malicious" with band "Caution" exactly when
\* 0.50 <= final_prob <= 0.70; band "Safe" always comes with verdict "Safe",
\* and band "High Risk" always comes with verdict "Malicious".
C15_VerdictAndBand ==
    pc = "done" =>
        /\ (verdict = "Malicious" /\ Band = "Caution")
             <=> (final_prob # NaN /\ Pct(50) <= final_prob /\ final_prob <= Pct(70))
        /\ Band = "Safe" => verdict = "Safe"
        /\ Band = "High Risk" => verdict = "Malicious"

\* Every probability a scorer returned lies in [0, 1] (nothing to check for a
\* scorer that failed).
ProbsInUnit(res) ==
    res.ok => \A i \in 1..Len(res.probs) : 0 <= res.probs[i] /\ res.probs[i] <= Scale

\* C16: whenever every component probability lies in [0, 1], final_prob lies
\* in [0, 1]; when both components are present it lies between the smaller
\* and the larger of the two component means.
C16_FinalInUnit ==
    (pc = "done" /\ ProbsInUnit(b_res) /\ ProbsInUnit(s_res)) =>
        /\ final_prob # NaN /\ 0 <= final_prob /\ final_prob <= Scale
        /\ (b_res.ok /\ s_res.ok) =>
             /\ Min2(static_prob, behav_prob) <= final_prob
             /\ final_prob <= Max2(static_prob, behav_prob)

\* A step of combine_model_outputs keeps the caller's table, the artifact
\* files, the state of other callers and an artifact that is already loaded.
InputUntouchedStep ==
    pc \in {"behav", "static", "fuse"} =>
        /\ df' = df
        /\ df_cols' = df_cols
        /\ artifact' = artifact
        /\ UNCHANGED aux
        /\ (g_model # "None" => UNCHANGED <<g_model, g_feats, g_thr>>)

\* C17: the fusion has no side effect on its input: from the call of
\* combine_model_outputs until it has returned or raised, no step changes the
\* rows or the columns of the caller's table (the columns the static model
\* misses are added to a private copy only), and nothing else but the lazily
\* loaded static artifact changes: the artifact files stay as they are and
\* the loaded artifact, once set, is not replaced.
C17_InputUntouched == [][InputUntouchedStep]_vars

\* C17 witness: the call has returned, the private copy has the model's five
\* features next to the caller's two columns, and the caller's table still
\* has two columns and its row.
C17_Witness ==
    /\ pc = "done" /\ s_res.ok /\ Len(df) = 1
    /\ df_cols = {"entropy_mean", "SizeOfImage"}
    /\ Cardinality(x_cols) = 6
    /\ df_cols # x_cols

\* The fixed keyword table, in the order the groups are tried.
KeywordGroups ==
    <<[keys |-> {"entropy"}, msg |-> E_ENTROPY],
      [keys |-> {"import", "crypt", "virtualalloc"}, msg |-> E_CRYPT],
      [keys |-> {"section"}, msg |-> E_SECTION],
      [keys |-> {"bitcoin", "btc"}, msg |-> E_BTC],
      [keys |-> {"write", "bulk", "encrypt"}, msg |-> E_WRITE]>>

\* The groups with a keyword that occurs in the name of a feature.
GroupsOf(feat) ==
    {g \in 1..Len(KeywordGroups) : KeywordGroups[g].keys \cap KeywordsIn(feat) # {}}

\* The sentence of the first matching group ("" when no group matches).
FirstGroupSentence(feat) ==
    IF GroupsOf(feat) = {} THEN ""
    ELSE KeywordGroups[CHOOSE g \in GroupsOf(feat) : \A h \in GroupsOf(feat) : g <= h].msg

\* Where a sentence is produced first in a list of features (0 for never).
FirstAt(top, msg) ==
    LET at == {i \in 1..Len(top) : FirstGroupSentence(top[i]) = msg}
    IN  IF at = {} THEN 0 ELSE CHOOSE i \in at : \A j \in at : i <= j

\* C19: friendly_explanations returns between 1 and 3 strings without
\* duplicates, in the order of the first feature that produced each sentence,
\* each feature being mapped by the first matching keyword group of the fixed
\* table; when no feature matches any keyword the result is the single generic
\* fallback sentence.
C19_Explanations ==
    explanations # <<>> =>
        LET out == explanations
            top == top_features
            matched == {i \in 1..Len(top) : GroupsOf(top[i]) # {}}
        IN  /\ 1 <= Len(out) /\ Len(out) <= 3
            /\ \A i, j \in 1..Len(out) : i # j => out[i] # out[j]
            /\ matched = {} <=> out = <<E_GENERIC>>
            /\ matched # {} =>
                 /\ \A k \in 1..Len(out) : FirstAt(top, out[k]) # 0
                 /\ \A k \in 1..(Len(out) - 1) : FirstAt(top, out[k]) < FirstAt(top, out[k + 1])
                 /\ \A i \in matched :
                      \/ FirstGroupSentence(top[i]) \in Range(out)
                      \/ Len(out) = 3 /\ FirstAt(top, out[3]) < i

\* C19 witness: four features that produce four sentences, two of them by
\* the first of two matching groups; the first three sentences are returned.
C19_Witness ==
    /\ top_features = <<"bitcoin_write_rate", "section_entropy_max", "NumberOfSections",
                        "bulk_write_ops">>
    /\ explanations = <<E_BTC, E_ENTROPY, E_SECTION>>

\* C22: for every behavioural row predictions[i] = 1 if and only if the
\* file-activity rule triggers for that row: the network and process rules
\* together give 0.4, under the threshold 0.6, and the file rule alone gives
\* 0.6, which meets it.
C22_PredictionIsFileRule ==
    (b_res.ok /\ df # <<>>) =>
        \A i \in 1..Len(df) :
            LET t == Triggered(df[i])
            IN  /\ b_res.preds[i] = 1 <=> t.file
                /\ b_res.preds[i] = 0 <=> ~t.file
                /\ (t.net /\ t.proc /\ ~t.file) => b_res.probs[i] = Pct(40)
                /\ (t.file /\ ~t.net /\ ~t.proc) => b_res.probs[i] = Pct(60)

\* C22 witness: a row with the file rule alone (0.6, predicted 1) followed by
\* a row with the network and the process rule (0.4, predicted 0).
C22_Witness ==
    /\ b_res.ok /\ Len(df) = 2
    /\ Triggered(df[1]) = [file |-> TRUE, net |-> FALSE, proc |-> FALSE]
    /\ Triggered(df[2]) = [file |-> FALSE, net |-> TRUE, proc |-> TRUE]
    /\ b_res.preds = <<1, 0>>

\* A rule's outcome for a row of absent or numeric cells: the count over its
\* limit, or the ratio over the ratio limit (in thousandths), the ratio being
\* the supplied one when it is a non-zero number and count / total_events
\* (0 when total_events is 0) otherwise.
SuppliedRule(row, count, ratio, count_limit, ratio_limit) ==
    \/ CellNum(row[count]) > count_limit
    \/ IF RatioAbsent(row[ratio])
       THEN DerivedRule(row, count, count_limit, ratio_limit)
       ELSE row[ratio].v > ratio_limit

\* The sum of the weights, in hundredths, of the rules such a row triggers.
SuppliedWeights(row) ==
    (IF SuppliedRule(row, "n_file_create", "ratio_file_create", 1000, 500) THEN 60 ELSE 0)
    + (IF SuppliedRule(row, "n_net_conn", "ratio_net_conn", 5, 20) THEN 20 ELSE 0)
    + (IF SuppliedRule(row, "n_proc_create", "ratio_proc_create", 10, 20) THEN 20 ELSE 0)

\* C27: in _compute_behav_score a supplied non-zero ratio is used as given,
\* before the count-derived ratio, also when it disagrees with the counts or
\* when total_events is 0; count / total_events is used only when the ratio
\* field is absent or 0.
C27_SuppliedRatioFirst ==
    \A i \in 1..Len(df) :
        LET row == df[i]
            total == GetFloat(row, "total_events")
        IN  /\ \A p \in {<<"ratio_proc_create", "n_proc_create">>,
                         <<"ratio_file_create", "n_file_create">>,
                         <<"ratio_net_conn", "n_net_conn">>} :
                 LET c == row[p[1]]
                     n == GetFloat(row, p[2])
                     r == GetRatio(row, p[1], n, total)
                 IN  /\ (c.kind = "num" /\ c.v # 0)
                          => (r.kind = "num" /\ r.num * 1000 = c.v * r.den)
                     /\ (Plain(row["total_events"]) /\ Plain(row[p[2]])
                           /\ CellNum(row["total_events"]) > 0
                           /\ CellNum(row[p[2]]) * 1000 # c.v * CellNum(row["total_events"])
                           /\ r.kind = "num"
                           /\ r.num * CellNum(row["total_events"]) = CellNum(row[p[2]]) * r.den)
                          => RatioAbsent(c)
            /\ ((\A c \in DOMAIN row : Plain(row[c])) /\ b_res.ok) =>
                 100 * b_res.probs[i] = Scale * SuppliedWeights(row)

\* C27 witness: total_events = 0 and no file creation, yet the supplied ratio
\* 0.501 fires the file rule; with total_events = 100 and 1000 file creations
\* (count-derived ratio 10) a supplied ratio of 0.5 keeps the rule silent.
C27_Witness ==
    /\ b_res.ok /\ Len(df) = 1
    /\ df[1]["total_events"] = Num(0)
    /\ df[1]["n_file_create"] = Num(0)
    /\ df[1]["ratio_file_create"] = Num(501)
    /\ b_res.probs = <<Pct(60)>>
    /\ PredictBehav(<<[df[1] EXCEPT !["total_events"] = Num(100),
                                    !["n_file_create"] = Num(1000),
                                    !["ratio_file_create"] = Num(500)]>>).probs = <<0>>

\* C26: when row 0 triggers all three behavioural rules, the fused reasons
\* combine_model_outputs returns are exactly the three behavioural reasons,
\* with no static reason, whatever the static scorer returned; and whenever
\* there is a behavioural reason the first fused reason is behavioural.
C26_BehaviouralReasonsFirst ==
    pc = "done" =>
        /\ (df # <<>> /\ Triggered(df[1]) = [file |-> TRUE, net |-> TRUE, proc |-> TRUE])
             => debug_info.reasons = <<R_FILE, R_NET, R_PROC>>
        /\ (b_res.ok /\ b_res.reasons # <<>>)
             => debug_info.reasons[1] = b_res.reasons[1]

\* The table is not empty and has none of the behavioural columns.
NoBehavColumns == df # <<>> /\ \A i \in 1..Len(df) : df[i] = NoBehavRow

\* C23: for a non-empty table without any behavioural column predict_behav
\* succeeds with score 0 for every row, so combine_model_outputs does not
\* fall back to the static scorer alone: when the static scorer succeeds the
\* fused probability is 0.6 * static_mean, at most 0.6, and the band is never
\* "High Risk".
C23_NoBehavColumns ==
    NoBehavColumns =>
        /\ b_res # NotCalled =>
             /\ b_res.ok
             /\ Len(b_res.probs) = Len(df)
             /\ \A i \in 1..Len(df) : b_res.probs[i] = 0
        /\ (pc = "done" /\ s_res.ok) =>
             /\ Len(s_res.probs) = Len(df)
             /\ 100 * Len(df) * final_prob = 60 * SeqSum(s_res.probs)
             /\ final_prob <= Pct(60)
             /\ Band # "High Risk"

\* C23 witness: two rows without behavioural columns and a static scorer
\* certain of both: the fused probability is 0.6, banded "Caution".
C23_Witness ==
    /\ pc = "done" /\ NoBehavColumns /\ Len(df) = 2
    /\ s_res.ok /\ s_res.probs = <<Scale, Scale>>
    /\ b_res.probs = <<0, 0>>
    /\ final_prob = Pct(60) /\ Band = "Caution" /\ verdict = "Malicious"

\* C21: combine_model_outputs ends exceptionally only with the RuntimeError
\* "Both models failed.": a KeyError or ValueError raised inside a scorer is
\* caught there and never reaches scan_file, so /scan answers a fusion
\* failure with status 500 and never with its 400 "Missing required column"
\* or "Invalid value" responses.
C21_OnlyRuntimeError ==
    /\ exc \in {"", "RuntimeError"}
    /\ pc = "failed" => exc = "RuntimeError" /\ ~b_res.ok /\ ~s_res.ok
    /\ (endpoint = "scan" /\ pc = "responded" /\ b_res # NotCalled) =>
          \/ resp.status = 200 /\ exc = ""
          \/ resp = HttpError(500, "Model inference failed") /\ exc = "RuntimeError"
    /\ endpoint = "scan" =>
          resp.detail \notin {"Missing required column in CSV", "Invalid value in CSV"}

\* /scan has answered 500 to a request whose behavioural scorer raised a
\* ValueError and whose static scorer failed too.
C21_Witness ==
    /\ endpoint = "scan"
    /\ pc = "responded"
    /\ resp.status = 500
    /\ ~b_res.ok
    /\ ExcKind(b_res.err) = "ValueError"
    /\ ~s_res.ok

\* What combine_model_outputs returns of final_prob, verdict, risk_band and
\* reasons when only the behavioural scorer succeeded, with result res.
DegradedBehav(res) ==
    LET f == FusionLogic(None, MeanProb(res)).final
    IN  [final_prob |-> f, verdict |-> Verdict(f), risk_band |-> risk_band_from_prob(f),
         reasons |-> FusedReasons(ExtendReasons(<<>>, res))]

\* The same when only the static scorer succeeded, with result res.
DegradedStatic(res) ==
    LET f == FusionLogic(MeanProb(res), None).final
    IN  [final_prob |-> f, verdict |-> Verdict(f), risk_band |-> risk_band_from_prob(f),
         reasons |-> FusedReasons(ExtendReasons(<<>>, res))]

\* The four fields of a response.
Answer(r) ==
    [final_prob |-> r.final_prob, verdict |-> r.verdict, risk_band |-> r.risk_band,
     reasons |-> r.reasons]

Answered(e) == endpoint = e /\ pc = "responded" /\ resp.status = 200

\* C24: the single-scorer endpoints agree with degraded fusion: /scan_behavioral
\* answers with the final_prob, verdict, risk_band and reasons that
\* combine_model_outputs returns for the same behavioural result when the
\* static scorer fails, and /scan_exe with those it returns for the same
\* static result when the behavioural scorer fails.
C24_SingleScorerAgrees ==
    /\ Answered("scan_behavioral") => Answer(resp) = DegradedBehav(b_res)
    /\ Answered("scan_exe") => Answer(resp) = DegradedStatic(s_res)
    /\ Answered("scan") /\ b_res.ok /\ ~s_res.ok => Answer(resp) = DegradedBehav(b_res)
    /\ Answered("scan") /\ s_res.ok /\ ~b_res.ok => Answer(resp) = DegradedStatic(s_res)

\* /scan_behavioral has answered a table whose mean score is exactly the
\* fusion threshold, below the behavioural one, with reasons.
C24_Witness ==
    /\ Answered("scan_behavioral")
    /\ resp.final_prob = FUSION_THRESHOLD
    /\ resp.verdict = "Malicious"
    /\ Len(resp.reasons) >= 2

\* C25: in each of /scan, /scan_exe and /scan_behavioral insert_log is called
\* at most once per request and only after the verdict and the probability
\* have been computed; a request that ends in an HTTP error before that point
\* writes no log row; and however insert_log ends, an exception included, the
\* response is status ok with the same verdict and final_prob.
C25_LogOnceAfterVerdict ==
    /\ log_calls <= 1
    /\ log_rows <= log_calls
    /\ log_calls = 1 => verdict \in {"Malicious", "Safe"} /\ final_prob # None
    /\ pc \notin {"done", "responded"} => log_calls = 0
    /\ (pc = "responded" /\ resp.status # 200) => log_calls = 0 /\ log_rows = 0
    /\ (pc = "responded" /\ log_calls = 1) =>
          /\ resp.status = 200
          /\ resp.detail = "ok"
          /\ resp.verdict = verdict
          /\ resp.final_prob = final_prob
    /\ (pc = "responded" /\ resp.status = 200) => log_calls = 1

\* A request has been answered ok although its call of insert_log raised.
C25_Witness ==
    /\ pc = "responded"
    /\ log_result = "raised"
    /\ log_calls = 1
    /\ resp.status = 200
    /\ resp.verdict = "Malicious"

\* A request has ended in an HTTP error after a scorer ran, without a log row.
C25_WitnessError ==
    /\ pc = "responded"
    /\ resp.status = 500
    /\ ~b_res.ok
    /\ b_res # NotCalled
    /\ log_calls = 0

====
